---------------------------- MODULE Spec2Model ----------------------------
(***************************************************************************)
(* Model of streamlit_app.py: the lottery experiment (consent, pre-test,   *)
(* training, post-test, done) with its gamble generator, flag classifier,  *)
(* difficulty adapter, feedback composer and trial log.                    *)
(*                                                                         *)
(* Money and probabilities are kept exact: every amount the generator can  *)
(* produce is an even integer and p is 0.5, so p * amount is an integer.   *)
(* The model counts expected value and its thresholds in HALF euros: the   *)
(* probability 0.5 is the integer 1 (one half), and ev = 2.0 is the        *)
(* integer 4.  Wall-clock values (timestamp, trial_started_at, rt_seconds) *)
(* and the gamble_id are not part of the model state.                      *)
(***************************************************************************)
EXTENDS Integers, Sequences, FiniteSets, TLC

(***************************************************************************)
(* CONFIG, lines 16-18.                                                    *)
(***************************************************************************)
N_PRE == 40
N_TRAIN == 25
N_POST == 40

\* line 45: p = 0.5, counted in halves.
P_HALF == 1
\* lines 82, 84: the thresholds +2.0 and -2.0, counted in half euros.
EV_CLEAR == 4
\* line 297: the window keeps the last 10 flags.
FLAG_WINDOW == 10
\* lines 101-104: la / n >= 0.6, la / n <= 0.2 and the tier range 0..2.
\* For 0 <= la <= n <= 10 the correctly rounded quotient la / n equals the
\* literal 0.6 (0.2) exactly when la / n = 3/5 (1/5), so the float comparison
\* is the rational one: 10 * la >= 6 * n, 10 * la <= 2 * n.
HIGH_TENTHS == 6
LOW_TENTHS == 2
TENTHS == 10
MAX_TIER == 2

(***************************************************************************)
(* Bounds of the model.                                                    *)
(***************************************************************************)
\* Inputs of one session that differ from the participant's habitual input.
MaxDeviations == 1
\* rng_seed = int(time.time()) is drawn from 0..MaxSeed.
MaxSeed == 1
\* participant ids are drawn from 1..MaxId.
MaxId == 2
\* Restarts in one behaviour.
MaxRestarts == 1

Decisions == {"accept", "reject"}
Flags == {"loss_aversion_possible", "risk_seeking_or_noise", "none"}
Phases == {"consent", "pre", "train", "post", "done"}
TrialPhases == {"pre", "train", "post"}

(***************************************************************************)
(* random.Random.  The generator is a deterministic function of its seed;  *)
(* the Mersenne Twister is replaced by a 16-bit linear congruential        *)
(* generator.  What choice() does with the words is modelled as in CPython:*)
(* choice(seq) = seq[_randbelow(len(seq))], and _randbelow(n) draws        *)
(* k = n.bit_length() top bits of successive words until the value is < n. *)
(***************************************************************************)
RECURSIVE Pow2(_)
Pow2(k) == IF k = 0 THEN 1 ELSE 2 * Pow2(k - 1)

\* The generator's words have 16 bits.
RngModulus == Pow2(16)
RngStates == 0 .. (RngModulus - 1)

\* random.Random(seed): the state after seeding.
Random(seed) ==
    (((seed % 251) * (seed % 251) * 31 + (seed % 8191) * 7919 + 10007) % RngModulus)

\* one step of the generator
genrand(x) == (25173 * x + 13849) % RngModulus

RECURSIVE bit_length(_)
bit_length(n) == IF n = 0 THEN 0 ELSE 1 + bit_length(n \div 2)

\* getrandbits(k) on the word w: its k top bits.
getrandbits(w, k) == w \div Pow2(16 - k)

\* _randbelow(n) from generator state x: [r |-> value, x |-> state after].
RECURSIVE randbelow(_, _)
randbelow(n, x) ==
    LET x1 == genrand(x)
        r == getrandbits(x1, bit_length(n))
    IN IF r < n THEN [r |-> r, x |-> x1] ELSE randbelow(n, x1)

\* rng.choice(seq) from state x: [v |-> element, x |-> state after].
choice(seq, x) ==
    LET d == randbelow(Len(seq), x)
    IN [v |-> seq[d.r + 1], x |-> d.x]

(***************************************************************************)
(* LOTTERY MODEL                                                           *)
(***************************************************************************)
\* MixedGamble.ev, in half euros.
ev(g) == g.p_win * g.win - g.p_lose * g.lose

\* Mutant of sample_mixed_gamble: tier 1 draws its loss from the tier 0 list.
sample_mixed_gamble_copied(difficulty, x) ==
    LET wins == IF difficulty <= 0 THEN <<6, 8, 10, 12, 14, 16>>
                ELSE IF difficulty = 1 THEN <<10, 12, 14, 16, 18, 20, 22>>
                ELSE <<16, 18, 20, 22, 24, 26, 28, 30>>
        loses == IF difficulty <= 0 THEN <<4, 6, 8, 10, 12>>
                 ELSE IF difficulty = 1 THEN <<4, 6, 8, 10, 12>>
                 ELSE <<12, 14, 16, 18, 20, 22, 24>>
        w == choice(wins, x)
        l == choice(loses, w.x)
    IN [p_win |-> P_HALF, win |-> w.v, p_lose |-> P_HALF, lose |-> l.v]

sample_mixed_gamble(difficulty, x) ==
    LET wins == IF difficulty <= 0 THEN <<6, 8, 10, 12, 14, 16>>
                ELSE IF difficulty = 1 THEN <<10, 12, 14, 16, 18, 20, 22>>
                ELSE <<16, 18, 20, 22, 24, 26, 28, 30>>
        loses == IF difficulty <= 0 THEN <<4, 6, 8, 10, 12>>
                 ELSE IF difficulty = 1 THEN <<8, 10, 12, 14, 16, 18>>
                 ELSE <<12, 14, 16, 18, 20, 22, 24>>
        w == choice(wins, x)
        l == choice(loses, w.x)
    IN [p_win |-> P_HALF, win |-> w.v, p_lose |-> P_HALF, lose |-> l.v]

(***************************************************************************)
(* RULES / TRAINING LOGIC                                                  *)
(***************************************************************************)
\* Mutant of simple_loss_aversion_flag: ev > 2.0 where the code has ev >= 2.0.
simple_loss_aversion_flag_gt(gamble, decision) ==
    IF ev(gamble) > EV_CLEAR /\ decision = "reject"
    THEN "loss_aversion_possible"
    ELSE IF ev(gamble) <= -EV_CLEAR /\ decision = "accept"
    THEN "risk_seeking_or_noise"
    ELSE "none"

simple_loss_aversion_flag(gamble, decision) ==
    IF ev(gamble) >= EV_CLEAR /\ decision = "reject"
    THEN "loss_aversion_possible"
    ELSE IF ev(gamble) <= -EV_CLEAR /\ decision = "accept"
    THEN "risk_seeking_or_noise"
    ELSE "none"

max(a, b) == IF a >= b THEN a ELSE b
min(a, b) == IF a <= b THEN a ELSE b

\* sum(1 for f in recent_flags if f == "loss_aversion_possible")
count_la(recent_flags) ==
    Cardinality({i \in 1 .. Len(recent_flags) :
                    recent_flags[i] = "loss_aversion_possible"})

\* Mutant of adapt_difficulty: la / n > 0.6 where the code has la / n >= 0.6.
adapt_difficulty_gt(current, recent_flags) ==
    IF recent_flags = <<>> THEN current
    ELSE LET la == count_la(recent_flags)
             n == Len(recent_flags)
         IN IF TENTHS * la > HIGH_TENTHS * n THEN max(0, current - 1)
            ELSE IF TENTHS * la <= LOW_TENTHS * n THEN min(MAX_TIER, current + 1)
            ELSE current

adapt_difficulty(current, recent_flags) ==
    IF recent_flags = <<>> THEN current
    ELSE LET la == count_la(recent_flags)
             n == Len(recent_flags)
         IN IF TENTHS * la >= HIGH_TENTHS * n THEN max(0, current - 1)
            ELSE IF TENTHS * la <= LOW_TENTHS * n THEN min(MAX_TIER, current + 1)
            ELSE current

(***************************************************************************)
(* Text.  A string is a sequence of tokens; "" is <<>>.                    *)
(***************************************************************************)
abs(a) == IF a < 0 THEN -a ELSE a

\* The decimal numeral of a natural number, one token per digit.
digit(d) == <<"0", "1", "2", "3", "4", "5", "6", "7", "8", "9">>[d + 1]

RECURSIVE numeral(_)
numeral(n) == IF n < 10 THEN <<digit(n)>> ELSE numeral(n \div 10) \o <<digit(n % 10)>>

\* f"{x:.0f}" for an amount (an integral, positive float): its numeral.
fmt_0f(x) == numeral(x)

\* f"{ev:+.1f}" for ev = h / 2: sign, integer part, point, one decimal.
fmt_plus_1f(h) ==
    <<(IF h < 0 THEN "-" ELSE "+")>> \o numeral(abs(h) \div 2)
        \o <<".", digit(5 * (abs(h) % 2))>>

T_LOSS_AVERSION == "If the possible loss felt disproportionately salient, try focusing on the probability structure and the long-run average outcome."
T_RISK_SEEKING == "Consider whether you would make the same choice repeatedly: what would happen on average over many trials?"
T_GENERIC == "A quick check: what mattered more: the potential loss magnitude or the expected value?"

coach_feedback_template(gamble, decision, flag) ==
    LET ev_text == <<"EV = ">> \o fmt_plus_1f(ev(gamble)) \o <<"EUR (expected value).">>
        frame == <<"This is a 50/50 gamble: win ">> \o fmt_0f(gamble.win)
                 \o <<"EUR or lose ">> \o fmt_0f(gamble.lose) \o <<"EUR.">>
    IN IF flag = "loss_aversion_possible"
       THEN frame \o <<" ">> \o ev_text \o <<" ", T_LOSS_AVERSION>>
       ELSE IF flag = "risk_seeking_or_noise"
       THEN frame \o <<" ">> \o ev_text \o <<" ", T_RISK_SEEKING>>
       ELSE frame \o <<" ">> \o ev_text \o <<" ", T_GENERIC>>

\* str.strip(): drop leading and trailing blanks.
RECURSIVE lstrip(_)
lstrip(s) == IF s # <<>> /\ Head(s) = " " THEN lstrip(Tail(s)) ELSE s

RECURSIVE rstrip(_)
rstrip(s) ==
    IF s # <<>> /\ s[Len(s)] = " " THEN rstrip(SubSeq(s, 1, Len(s) - 1)) ELSE s

strip(s) == rstrip(lstrip(s))

(***************************************************************************)
(* State.  session_state is st.session_state, a record of its keys.  The   *)
(* participant is the environment: habit is the decision they usually      *)
(* take, deviations counts the inputs so far that were not the habitual    *)
(* one (the habitual decision with an empty reflection).  call and ret are *)
(* the argument record and the result of one call of a pure function, used *)
(* by the specifications that check the functions on their own.            *)
(***************************************************************************)
VARIABLES session_state, habit, deviations, restarts, call, ret

vars == <<session_state, habit, deviations, restarts, call, ret>>

Seeds == 0 .. MaxSeed
Ids == 1 .. MaxId
\* What the participant may type in the reflection box.
Reflections == {<<>>, <<" ">>, <<" ", "o", "k", " ">>}

NoCall == [fn |-> "none"]

(***************************************************************************)
(* SESSION STATE INIT                                                      *)
(***************************************************************************)
\* The gambles random.Random() without a seed can give at tier 0 (line 153).
UnseededGambles == {sample_mixed_gamble(0, x) : x \in RngStates}

\* init_state() on an empty session_state: every key is set.  participant_id
\* and rng_seed come from uuid4 and the clock, current_gamble from an
\* unseeded generator.
init_state ==
    {[participant_id |-> id, phase |-> "consent", trial_index |-> 0,
      difficulty |-> 0, current_gamble |-> g, rng_seed |-> seed,
      logs |-> <<>>, last_flags |-> <<>>, reflection |-> <<>>] :
        id \in Ids, seed \in Seeds, g \in UnseededGambles}

\* Mutant of rng: the phase enters the seed.
rng_phase_offset(s) ==
    Random(s.rng_seed + s.trial_index + (IF s.phase = "pre" THEN 0 ELSE 1))

rng(s) == Random(s.rng_seed + s.trial_index)

phase_total_trials(phase) ==
    IF phase = "pre" THEN N_PRE
    ELSE IF phase = "train" THEN N_TRAIN
    ELSE IF phase = "post" THEN N_POST
    ELSE 0

\* Mutant of advance_trial: the phase ends when trial_index > total.
advance_trial_gt(s) ==
    LET s1 == [s EXCEPT !.trial_index = @ + 1, !.reflection = <<>>]
        total == phase_total_trials(s1.phase)
        s2 == IF s1.trial_index > total
              THEN [s1 EXCEPT !.phase = IF @ = "pre" THEN "train"
                                        ELSE IF @ = "train" THEN "post"
                                        ELSE IF @ = "post" THEN "done"
                                        ELSE @,
                              !.trial_index = 0,
                              !.difficulty = 0,
                              !.last_flags = <<>>]
              ELSE s1
    IN IF s2.phase \in TrialPhases
       THEN [s2 EXCEPT !.current_gamble = sample_mixed_gamble(s2.difficulty, rng(s2))]
       ELSE s2

\* Mutant of advance_trial: the phase chain is if / if / if, not if / elif / elif.
advance_trial_if_chain(s) ==
    LET s1 == [s EXCEPT !.trial_index = @ + 1, !.reflection = <<>>]
        total == phase_total_trials(s1.phase)
        s2 == IF s1.trial_index >= total
              THEN [s1 EXCEPT !.phase = IF @ \in TrialPhases THEN "done" ELSE @,
                              !.trial_index = 0,
                              !.difficulty = 0,
                              !.last_flags = <<>>]
              ELSE s1
    IN IF s2.phase \in TrialPhases
       THEN [s2 EXCEPT !.current_gamble = sample_mixed_gamble(s2.difficulty, rng(s2))]
       ELSE s2

\* Mutant of advance_trial: the tier is not reset at the phase boundary.
advance_trial_keep_tier(s) ==
    LET s1 == [s EXCEPT !.trial_index = @ + 1, !.reflection = <<>>]
        total == phase_total_trials(s1.phase)
        s2 == IF s1.trial_index >= total
              THEN [s1 EXCEPT !.phase = IF @ = "pre" THEN "train"
                                        ELSE IF @ = "train" THEN "post"
                                        ELSE IF @ = "post" THEN "done"
                                        ELSE @,
                              !.trial_index = 0,
                              !.last_flags = <<>>]
              ELSE s1
    IN IF s2.phase \in TrialPhases
       THEN [s2 EXCEPT !.current_gamble = sample_mixed_gamble(s2.difficulty, rng(s2))]
       ELSE s2

\* Mutant of advance_trial: the next gamble is sampled with the tier from
\* before the end-of-phase reset.
advance_trial_stale_tier(s) ==
    LET s1 == [s EXCEPT !.trial_index = @ + 1, !.reflection = <<>>]
        total == phase_total_trials(s1.phase)
        s2 == IF s1.trial_index >= total
              THEN [s1 EXCEPT !.phase = IF @ = "pre" THEN "train"
                                        ELSE IF @ = "train" THEN "post"
                                        ELSE IF @ = "post" THEN "done"
                                        ELSE @,
                              !.trial_index = 0,
                              !.difficulty = 0,
                              !.last_flags = <<>>]
              ELSE s1
    IN IF s2.phase \in TrialPhases
       THEN [s2 EXCEPT !.current_gamble = sample_mixed_gamble(s1.difficulty, rng(s2))]
       ELSE s2

\* Mutant of advance_trial: the trial index is not reset when the phase ends.
advance_trial_no_reset(s) ==
    LET s1 == [s EXCEPT !.trial_index = @ + 1, !.reflection = <<>>]
        total == phase_total_trials(s1.phase)
        s2 == IF s1.trial_index >= total
              THEN [s1 EXCEPT !.phase = IF @ = "pre" THEN "train"
                                        ELSE IF @ = "train" THEN "post"
                                        ELSE IF @ = "post" THEN "done"
                                        ELSE @,
                              !.difficulty = 0,
                              !.last_flags = <<>>]
              ELSE s1
    IN IF s2.phase \in TrialPhases
       THEN [s2 EXCEPT !.current_gamble = sample_mixed_gamble(s2.difficulty, rng(s2))]
       ELSE s2

\* Mutant of advance_trial: a gamble is sampled whatever the phase is.
advance_trial_always_sample(s) ==
    LET s1 == [s EXCEPT !.trial_index = @ + 1, !.reflection = <<>>]
        total == phase_total_trials(s1.phase)
        s2 == IF s1.trial_index >= total
              THEN [s1 EXCEPT !.phase = IF @ = "pre" THEN "train"
                                        ELSE IF @ = "train" THEN "post"
                                        ELSE IF @ = "post" THEN "done"
                                        ELSE @,
                              !.trial_index = 0,
                              !.difficulty = 0,
                              !.last_flags = <<>>]
              ELSE s1
    IN [s2 EXCEPT !.current_gamble = sample_mixed_gamble(s2.difficulty, rng(s2))]

advance_trial(s) ==
    LET s1 == [s EXCEPT !.trial_index = @ + 1, !.reflection = <<>>]
        total == phase_total_trials(s1.phase)
        s2 == IF s1.trial_index >= total
              THEN [s1 EXCEPT !.phase = IF @ = "pre" THEN "train"
                                        ELSE IF @ = "train" THEN "post"
                                        ELSE IF @ = "post" THEN "done"
                                        ELSE @,
                              !.trial_index = 0,
                              !.difficulty = 0,
                              !.last_flags = <<>>]
              ELSE s1
    IN IF s2.phase \in TrialPhases
       THEN [s2 EXCEPT !.current_gamble = sample_mixed_gamble(s2.difficulty, rng(s2))]
       ELSE s2

\* Mutant of log_decision: the row is inserted at the front of the log.
log_decision_prepend(s, decision, reflection, feedback, flag) ==
    LET g == s.current_gamble
        row == [participant_id |-> s.participant_id,
                phase |-> s.phase,
                trial_in_phase |-> s.trial_index,
                p_win |-> g.p_win,
                win |-> g.win,
                p_lose |-> g.p_lose,
                lose |-> g.lose,
                ev |-> ev(g),
                decision |-> decision,
                flag |-> flag,
                feedback |-> feedback,
                reflection |-> strip(reflection),
                difficulty |-> s.difficulty]
    IN [s EXCEPT !.logs = <<row>> \o @]

\* Mutant of log_decision: the ev column holds win + lose.
log_decision_ev_sum(s, decision, reflection, feedback, flag) ==
    LET g == s.current_gamble
        row == [participant_id |-> s.participant_id,
                phase |-> s.phase,
                trial_in_phase |-> s.trial_index,
                p_win |-> g.p_win,
                win |-> g.win,
                p_lose |-> g.p_lose,
                lose |-> g.lose,
                ev |-> g.win + g.lose,
                decision |-> decision,
                flag |-> flag,
                feedback |-> feedback,
                reflection |-> strip(reflection),
                difficulty |-> s.difficulty]
    IN [s EXCEPT !.logs = Append(@, row)]

log_decision(s, decision, reflection, feedback, flag) ==
    LET g == s.current_gamble
        row == [participant_id |-> s.participant_id,
                phase |-> s.phase,
                trial_in_phase |-> s.trial_index,
                p_win |-> g.p_win,
                win |-> g.win,
                p_lose |-> g.p_lose,
                lose |-> g.lose,
                ev |-> ev(g),
                decision |-> decision,
                flag |-> flag,
                feedback |-> feedback,
                reflection |-> strip(reflection),
                difficulty |-> s.difficulty]
    IN [s EXCEPT !.logs = Append(@, row)]

\* recent[-10:]
\* Mutant of last_window: the first 10 flags are kept, not the last 10.
last_window_head(flags) ==
    IF Len(flags) <= FLAG_WINDOW THEN flags
    ELSE SubSeq(flags, 1, FLAG_WINDOW)

last_window(flags) ==
    IF Len(flags) <= FLAG_WINDOW THEN flags
    ELSE SubSeq(flags, Len(flags) - FLAG_WINDOW + 1, Len(flags))

\* handle(decision) in the script run that rendered gamble g in phase `phase`
\* with the local variable reflection.
\* Mutant of handle: the tier is adapted on the window as it was before the
\* flag of this decision entered it.
handle_adapt_before_flag(s, g, phase, reflection, decision) ==
    LET flag == simple_loss_aversion_flag(g, decision)
        s1 == IF phase = "train"
              THEN LET w == last_window(Append(s.last_flags, flag))
                   IN [s EXCEPT !.last_flags = w,
                                !.difficulty = adapt_difficulty(s.difficulty, s.last_flags)]
              ELSE s
        feedback == IF phase = "train"
                    THEN coach_feedback_template(g, decision, flag)
                    ELSE <<>>
        s2 == log_decision(s1, decision,
                           IF phase = "train" THEN reflection ELSE <<>>,
                           feedback, flag)
    IN advance_trial(s2)

\* Mutant of handle: the feedback is composed in every phase.
handle_feedback_always(s, g, phase, reflection, decision) ==
    LET flag == simple_loss_aversion_flag(g, decision)
        s1 == IF phase = "train"
              THEN LET w == last_window(Append(s.last_flags, flag))
                   IN [s EXCEPT !.last_flags = w,
                                !.difficulty = adapt_difficulty(s.difficulty, w)]
              ELSE s
        feedback == coach_feedback_template(g, decision, flag)
        s2 == log_decision(s1, decision,
                           IF phase = "train" THEN reflection ELSE <<>>,
                           feedback, flag)
    IN advance_trial(s2)

handle(s, g, phase, reflection, decision) ==
    LET flag == simple_loss_aversion_flag(g, decision)
        s1 == IF phase = "train"
              THEN LET w == last_window(Append(s.last_flags, flag))
                   IN [s EXCEPT !.last_flags = w,
                                !.difficulty = adapt_difficulty(s.difficulty, w)]
              ELSE s
        feedback == IF phase = "train"
                    THEN coach_feedback_template(g, decision, flag)
                    ELSE <<>>
        s2 == log_decision(s1, decision,
                           IF phase = "train" THEN reflection ELSE <<>>,
                           feedback, flag)
    IN advance_trial(s2)

\* Lines 280-290: the reflection box exists only in training; what it holds
\* is stored in session_state.reflection on every script run.
render_reflection(s, text) ==
    IF s.phase = "train" THEN [s EXCEPT !.reflection = text] ELSE s

(***************************************************************************)
(* The session.                                                            *)
(***************************************************************************)
Init ==
    /\ session_state \in init_state
    /\ habit \in Decisions
    /\ deviations = 0
    /\ restarts = 0
    /\ call = NoCall
    /\ ret = <<>>

\* Lines 250-258: the consent box is ticked and Start is pressed.
Start ==
    /\ session_state.phase = "consent"
    /\ session_state' =
          LET s == [session_state EXCEPT !.phase = "pre", !.trial_index = 0,
                                         !.difficulty = 0, !.last_flags = <<>>]
          IN [s EXCEPT !.current_gamble = sample_mixed_gamble(s.difficulty, rng(s))]
    /\ UNCHANGED <<habit, deviations, restarts, call, ret>>

\* A script run in training in which the participant has typed a reflection
\* and pressed no button (line 290).
Reflect ==
    /\ session_state.phase = "train"
    /\ \E text \in Reflections :
          session_state' = render_reflection(session_state, text)
    /\ session_state' # session_state
    /\ UNCHANGED <<habit, deviations, restarts, call, ret>>

\* A script run in a trial phase in which Accept or Reject is pressed
\* (lines 260-320): the page is rendered, then handle(decision) runs.
Decide ==
    /\ session_state.phase \in TrialPhases
    /\ \E decision \in Decisions :
       \E text \in (IF session_state.phase = "train" THEN Reflections ELSE {<<>>}) :
          LET cost == IF decision = habit /\ text = <<>> THEN 0 ELSE 1
              phase == session_state.phase
              g == session_state.current_gamble
              reflection == IF phase = "train" THEN text ELSE <<>>
          IN /\ deviations + cost <= MaxDeviations
             /\ deviations' = deviations + cost
             /\ session_state' =
                   handle(render_reflection(session_state, text), g, phase,
                          reflection, decision)
    /\ UNCHANGED <<habit, restarts, call, ret>>

\* Mutant of Restart: the logs key survives the restart.
Restart_keeps_log ==
    /\ session_state.phase = "done"
    /\ restarts < MaxRestarts
    /\ restarts' = restarts + 1
    /\ session_state' \in {[t EXCEPT !.logs = session_state.logs] : t \in init_state}
    /\ UNCHANGED <<habit, deviations, call, ret>>

\* Lines 348-351: every key is deleted and the rerun initialises them again.
Restart ==
    /\ session_state.phase = "done"
    /\ restarts < MaxRestarts
    /\ restarts' = restarts + 1
    /\ session_state' \in init_state
    /\ UNCHANGED <<habit, deviations, call, ret>>

Next == Start \/ Reflect \/ Decide \/ Restart

Spec == Init /\ [][Next]_vars

\* A participant who always takes the habitual decision and leaves the
\* reflection box as it is when deciding.
InitHabitual ==
    /\ session_state \in init_state
    /\ habit \in Decisions
    /\ deviations = MaxDeviations
    /\ restarts = 0
    /\ call = NoCall
    /\ ret = <<>>

\* The participant keeps answering: while a trial is shown (lines 274-278
\* render the two buttons on every run of a trial phase) one of the buttons
\* is eventually pressed.  This is weak fairness of Decide, written out:
\* Decide is enabled exactly in the trial phases, where the habitual decision
\* costs no deviation and every decision appends a row.
Answering ==
    \/ []<>(session_state.phase \notin TrialPhases)
    \/ []<><<Decide>>_vars

SpecAnswering == InitHabitual /\ [][Next]_vars /\ Answering

(***************************************************************************)
(* The pure functions on their own: one call per behaviour, the arguments  *)
(* drawn in the initial state, the result stored in ret.                   *)
(***************************************************************************)
\* The session of a behaviour that only calls a function: never started.
IdleSession ==
    [participant_id |-> 1, phase |-> "consent", trial_index |-> 0,
     difficulty |-> 0, current_gamble |-> sample_mixed_gamble(0, Random(0)),
     rng_seed |-> 0, logs |-> <<>>, last_flags |-> <<>>, reflection |-> <<>>]

InitCall(calls) ==
    /\ session_state = IdleSession
    /\ habit = "accept"
    /\ deviations = 0
    /\ restarts = 0
    /\ call \in calls
    /\ ret = <<>>

\* Tiers a caller can pass: the documented ones and one beyond each end.
TierInputs == (0 - 1) .. (MAX_TIER + 1)

\* Every list of flags of length 0..FLAG_WINDOW.
FlagLists == UNION {[1 .. n -> Flags] : n \in 0 .. FLAG_WINDOW}

\* Every gamble the generator can return for a tier in 0..MAX_TIER.
GeneratorGambles ==
    {sample_mixed_gamble(d, x) : d \in 0 .. MAX_TIER, x \in RngStates}

AdaptCalls ==
    {[fn |-> "adapt_difficulty", current |-> c, recent_flags |-> fl] :
        c \in TierInputs, fl \in FlagLists}

FlagCalls ==
    {[fn |-> "simple_loss_aversion_flag", gamble |-> g, decision |-> d] :
        g \in GeneratorGambles, d \in Decisions}

SampleCalls ==
    {[fn |-> "sample_mixed_gamble", difficulty |-> d, x |-> x] :
        d \in TierInputs, x \in RngStates}

CallAdapt ==
    /\ call.fn = "adapt_difficulty"
    /\ ret = <<>>
    /\ ret' = <<adapt_difficulty(call.current, call.recent_flags)>>
    /\ UNCHANGED <<session_state, habit, deviations, restarts, call>>

CallFlag ==
    /\ call.fn = "simple_loss_aversion_flag"
    /\ ret = <<>>
    /\ ret' = <<simple_loss_aversion_flag(call.gamble, call.decision)>>
    /\ UNCHANGED <<session_state, habit, deviations, restarts, call>>

CallSample ==
    /\ call.fn = "sample_mixed_gamble"
    /\ ret = <<>>
    /\ ret' = <<sample_mixed_gamble(call.difficulty, call.x)>>
    /\ UNCHANGED <<session_state, habit, deviations, restarts, call>>

SpecAdapt == InitCall(AdaptCalls) /\ [][CallAdapt]_vars

SpecFlag == InitCall(FlagCalls) /\ [][CallFlag]_vars

\* The generator on its own and inside the session.
InitGambles == Init \/ InitCall(SampleCalls)

\* A behaviour is either a session or one call.
SessionStep == call = NoCall /\ Next

NextGambles == SessionStep \/ CallSample

SpecGambles == InitGambles /\ [][NextGambles]_vars

(***************************************************************************)
(* Calls the page never makes: the functions have no guard of their own,   *)
(* so the model lets a caller make them and records what the code does.    *)
(***************************************************************************)
\* log_decision and advance_trial run as in handle (lines 305-312), for a
\* decision, while the phase is consent or done.  One such call ends the
\* behaviour.
ProcessOutOfPhase ==
    /\ call = NoCall
    /\ session_state.phase \in {"consent", "done"}
    /\ \E decision \in Decisions :
          /\ call' = [fn |-> "process_trial", decision |-> decision]
          /\ session_state' =
                handle(session_state, session_state.current_gamble,
                       session_state.phase, <<>>, decision)
    /\ UNCHANGED <<habit, deviations, restarts, ret>>

NextDirect == SessionStep \/ ProcessOutOfPhase

SpecDirect == Init /\ [][NextDirect]_vars

\* The tiers outside 0..MAX_TIER a caller can pass.
OutOfRangeCalls ==
    {c \in SampleCalls \cup AdaptCalls :
        IF c.fn = "adapt_difficulty" THEN c.current \notin 0 .. MAX_TIER
        ELSE c.difficulty \notin 0 .. MAX_TIER}

NextTierInputs == CallSample \/ CallAdapt

SpecTierInputs == InitCall(OutOfRangeCalls) /\ [][NextTierInputs]_vars

\* Decision labels other than accept and reject.
OtherLabels == {"", "Accept", "skip"}

\* A session at its first pre-test trial.
PreSession ==
    LET s == [IdleSession EXCEPT !.phase = "pre"]
    IN [s EXCEPT !.current_gamble = sample_mixed_gamble(s.difficulty, rng(s))]

LabelCalls ==
    {[fn |-> "simple_loss_aversion_flag", gamble |-> g, decision |-> d] :
        g \in GeneratorGambles, d \in OtherLabels}
    \cup {[fn |-> "log_decision", decision |-> d] : d \in OtherLabels}

\* log_decision(decision, "", "", flag) at the first pre-test trial, as
\* handle calls it; ret is the log afterwards.
CallLog ==
    /\ call.fn = "log_decision"
    /\ ret = <<>>
    /\ ret' = <<log_decision(PreSession, call.decision, <<>>, <<>>,
                             simple_loss_aversion_flag(PreSession.current_gamble,
                                                       call.decision)).logs>>
    /\ UNCHANGED <<session_state, habit, deviations, restarts, call>>

NextLabels == CallFlag \/ CallLog

SpecLabels == InitCall(LabelCalls) /\ [][NextLabels]_vars

(***************************************************************************)
(* Properties.                                                             *)
(***************************************************************************)
Logs == session_state.logs
Phase == session_state.phase

\* A session step that processes a decision: exactly those append a row.
Decided == Len(session_state'.logs) = Len(session_state.logs) + 1
Restarted == restarts' # restarts

PhaseRank(p) ==
    IF p = "consent" THEN 0 ELSE IF p = "pre" THEN 1 ELSE IF p = "train" THEN 2
    ELSE IF p = "post" THEN 3 ELSE 4

RowsOf(log, p) == Cardinality({i \in 1 .. Len(log) : log[i].phase = p})

\* C1: the log never holds more than 105 rows; its rows 1..40 have phase
\* pre, its rows 41..65 phase train and its rows 66..105 phase post (so no
\* row of an earlier phase follows a row of a later one); and when the phase
\* is done it holds exactly 105 rows.
C1_FullSessionLog ==
    /\ Len(Logs) <= 105
    /\ \A i \in 1 .. Len(Logs) :
          Logs[i].phase = (IF i <= 40 THEN "pre" ELSE IF i <= 65 THEN "train" ELSE "post")
    /\ Phase = "done" => Len(Logs) = 105

\* A finished session whose log holds both decisions.
C1_Witness ==
    /\ Phase = "done"
    /\ Len(Logs) = 105
    /\ \E i, j \in 1 .. Len(Logs) :
          Logs[i].decision = "accept" /\ Logs[j].decision = "reject"

\* C2: between restarts the phase moves only one step forward: consent to
\* pre on Start (no decision), pre to train with the 40th pre row, train to
\* post with the 25th train row, post to done with the 40th post row; and a
\* decision changes the phase exactly when it is the last of its phase.
C2_PhaseForwardOnly ==
    [][ LET p == session_state.phase
            q == session_state'.phase
            last == IF p = "train" THEN 25 ELSE 40
        IN \/ Restarted
           \/ /\ p # q =>
                   \/ p = "consent" /\ q = "pre" /\ ~Decided
                   \/ p = "pre" /\ q = "train" /\ Decided
                   \/ p = "train" /\ q = "post" /\ Decided
                   \/ p = "post" /\ q = "done" /\ Decided
              /\ Decided => (p # q <=> RowsOf(session_state'.logs, p) = last)
      ]_vars

\* The 25th training decision has moved the session to the post-test.
C2_Witness ==
    /\ Phase = "post"
    /\ session_state.trial_index = 0
    /\ RowsOf(Logs, "train") = 25
    /\ RowsOf(Logs, "pre") = 40

\* The tier is in 0..2, and is 0 outside training and at the first training trial.
C3_Inv ==
    /\ session_state.difficulty \in 0 .. 2
    /\ Phase \in {"consent", "pre", "post", "done"} => session_state.difficulty = 0
    /\ Phase = "train" /\ session_state.trial_index = 0 => session_state.difficulty = 0

\* C3: the tier is in 0..2, is 0 outside training and at the first training
\* trial, and changes only while a training decision is processed: by at
\* most one step if the training goes on, to 0 at the phase boundary.
C3_DifficultyTrainingOnly ==
    /\ []C3_Inv
    /\ [][ session_state'.difficulty # session_state.difficulty =>
              /\ session_state.phase = "train"
              /\ Decided
              /\ \/ session_state'.phase = "train"
                    /\ abs(session_state'.difficulty - session_state.difficulty) = 1
                 \/ session_state'.phase = "post" /\ session_state'.difficulty = 0
         ]_vars

\* The post-test has begun after a training that ended above tier 0.
C3_Witness ==
    /\ Phase = "post"
    /\ Len(Logs) > 0
    /\ Logs[Len(Logs)].phase = "train"
    /\ Logs[Len(Logs)].difficulty > 0
    /\ session_state.difficulty = 0

\* The number of entries of fl equal to loss_aversion_possible.
LaCount(fl) == Cardinality({i \in DOMAIN fl : fl[i] = "loss_aversion_possible"})

Rep(n, f) == [i \in 1 .. n |-> f]

\* C4: for current in 0..2 and a flag list of length 0..10, adapt_difficulty
\* returns current on the empty list; otherwise, with f = la / n, it returns
\* max(0, current - 1) if f >= 0.6 (10 la >= 6 n), min(2, current + 1) if
\* f <= 0.2 (10 la <= 2 n) and current otherwise; the result is in 0..2 and
\* at most 1 away from current; and the three examples of the claim hold.
C4_AdaptDifficulty ==
    (call.fn = "adapt_difficulty" /\ ret # <<>> /\ call.current \in 0 .. 2) =>
        LET c == call.current
            fl == call.recent_flags
            n == Len(fl)
            la == LaCount(fl)
            r == ret[1]
        IN /\ n = 0 => r = c
           /\ (n > 0 /\ 10 * la >= 6 * n) => r = (IF c = 0 THEN 0 ELSE c - 1)
           /\ (n > 0 /\ 10 * la <= 2 * n) => r = (IF c = 2 THEN 2 ELSE c + 1)
           /\ (n > 0 /\ 10 * la < 6 * n /\ 10 * la > 2 * n) => r = c
           /\ r \in 0 .. 2
           /\ r - c \in {0 - 1, 0, 1}
           /\ (c = 1 /\ fl = Rep(6, "loss_aversion_possible") \o Rep(4, "none")) => r = 0
           /\ (c = 1 /\ fl = <<>>) => r = 1
           /\ (c = 2 /\ fl = Rep(9, "none") \o Rep(1, "loss_aversion_possible")) => r = 2

\* The first example of the claim has been computed: exactly 6 of 10.
C4_Witness ==
    /\ call.fn = "adapt_difficulty"
    /\ call.current = 1
    /\ call.recent_flags = Rep(6, "loss_aversion_possible") \o Rep(4, "none")
    /\ ret = <<0>>

\* C5: for a gamble of the generator and a decision, the flag is
\* loss_aversion_possible iff ev >= +2.0 and the decision is reject,
\* risk_seeking_or_noise iff ev <= -2.0 and the decision is accept, and none
\* in every other case.  With p = 0.5, ev >= 2.0 iff win - lose >= 4.
C5_FlagClassifier ==
    (call.fn = "simple_loss_aversion_flag" /\ ret # <<>>) =>
        LET g == call.gamble
            d == call.decision
            f == ret[1]
        IN /\ f = "loss_aversion_possible" <=> (g.win - g.lose >= 4 /\ d = "reject")
           /\ f = "risk_seeking_or_noise" <=> (g.lose - g.win >= 4 /\ d = "accept")
           /\ f = "none" <=> ~((g.win - g.lose >= 4 /\ d = "reject")
                               \/ (g.lose - g.win >= 4 /\ d = "accept"))
           /\ f \in {"loss_aversion_possible", "risk_seeking_or_noise", "none"}

\* A rejected gamble whose expected value is exactly +2.0 has been flagged.
C5_Witness ==
    /\ call.fn = "simple_loss_aversion_flag"
    /\ call.gamble.win - call.gamble.lose = 4
    /\ call.decision = "reject"
    /\ ret = <<"loss_aversion_possible">>

TierWins(t) ==
    IF t = 0 THEN {6, 8, 10, 12, 14, 16}
    ELSE IF t = 1 THEN {10, 12, 14, 16, 18, 20, 22}
    ELSE {16, 18, 20, 22, 24, 26, 28, 30}

TierLosses(t) ==
    IF t = 0 THEN {4, 6, 8, 10, 12}
    ELSE IF t = 1 THEN {8, 10, 12, 14, 16, 18}
    ELSE {12, 14, 16, 18, 20, 22, 24}

\* g is a 50/50 gamble (both probabilities one half) of tier t's sets.
FromTier(g, t) ==
    /\ g.p_win = 1 /\ g.p_lose = 1
    /\ g.win > 0 /\ g.lose > 0
    /\ g.win \in TierWins(t)
    /\ g.lose \in TierLosses(t)

\* C6: for a tier in 0..2 and any generator state, sample_mixed_gamble
\* returns a 50/50 gamble with positive amounts from that tier's sets; and in
\* a session the pending gamble is from the sets of the session's tier, and
\* every pre and post row's gamble is from the sets of tier 0.
C6_GambleFromTierSets ==
    /\ (call.fn = "sample_mixed_gamble" /\ ret # <<>> /\ call.difficulty \in 0 .. 2) =>
          FromTier(ret[1], call.difficulty)
    /\ call.fn = "none" =>
          /\ FromTier(session_state.current_gamble, session_state.difficulty)
          /\ \A i \in 1 .. Len(Logs) :
                Logs[i].phase \in {"pre", "post"} =>
                    FromTier([p_win |-> Logs[i].p_win, win |-> Logs[i].win,
                              p_lose |-> Logs[i].p_lose, lose |-> Logs[i].lose], 0)

\* A training trial presents a gamble sampled at tier 2.
C6_Witness ==
    /\ call.fn = "none"
    /\ Phase = "train"
    /\ session_state.difficulty = 2
    /\ session_state.current_gamble.win > 22

\* The generator called on its own has returned the largest tier-1 amounts.
C6_WitnessCall ==
    /\ call.fn = "sample_mixed_gamble"
    /\ call.difficulty = 1
    /\ ret # <<>>
    /\ ret[1].win = 22 /\ ret[1].lose = 18

IsTrainRow(r) == r.phase = "train"

\* C7: the flag window holds at most 10 entries, is empty whenever the phase
\* is not train, and in training, after k training decisions, equals, oldest
\* first, the flags of the last min(k, 10) training rows (empty for k = 0).
C7_FlagWindow ==
    LET w == session_state.last_flags
        tr == SelectSeq(Logs, IsTrainRow)
        k == Len(tr)
        m == IF k < 10 THEN k ELSE 10
    IN /\ Len(w) <= 10
       /\ Phase # "train" => w = <<>>
       /\ Phase = "train" =>
             /\ k = session_state.trial_index
             /\ Len(w) = m
             /\ \A i \in 1 .. m : w[i] = tr[k - m + i].flag

\* The 11th training flag has evicted a first flag that differs from the
\* flag now at the head of the window.
C7_Witness ==
    LET tr == SelectSeq(Logs, IsTrainRow)
    IN /\ Phase = "train"
       /\ Len(tr) = 11
       /\ Len(session_state.last_flags) = 10
       /\ tr[1].flag # session_state.last_flags[1]

IsPrefix(a, b) == Len(a) <= Len(b) /\ SubSeq(b, 1, Len(a)) = a

\* Rows of the phases before p in a session.
RowsBefore(p) ==
    IF p = "train" THEN 40 ELSE IF p = "post" THEN 65 ELSE IF p = "done" THEN 105 ELSE 0

\* The log holds one row per decision processed in the session.
C8_Inv == Len(Logs) = RowsBefore(Phase) + session_state.trial_index

\* C8: the number of rows equals the number of decisions processed in the
\* session; and every step other than a restart leaves the previous log a
\* prefix of the new one, with exactly one more row if the step processed a
\* decision (it left a trial position) and no more row otherwise.
C8_LogAppendOnly ==
    /\ []C8_Inv
    /\ [][ \/ Restarted
           \/ /\ IsPrefix(session_state.logs, session_state'.logs)
              /\ Len(session_state'.logs) <= Len(session_state.logs) + 1
              /\ Decided <=>
                    /\ session_state.phase \in {"pre", "train", "post"}
                    /\ <<session_state'.phase, session_state'.trial_index>>
                          # <<session_state.phase, session_state.trial_index>>
         ]_vars

\* A decision has been appended to a log that already held rows of two phases.
C8_Witness ==
    /\ Phase = "train"
    /\ session_state.trial_index = 3
    /\ Len(Logs) = 43
    /\ Logs[43].decision # Logs[42].decision

\* C9: the tier stored in the row a decision appends equals the session's
\* tier in force when the decision was made (the tier the row's gamble was
\* sampled with, before any adaptation the decision triggers).
C9_RowTierAtDecision ==
    [][ Decided =>
           session_state'.logs[Len(session_state'.logs)].difficulty
              = session_state.difficulty
      ]_vars

Dec(n) ==
    LET D == <<"0", "1", "2", "3", "4", "5", "6", "7", "8", "9">>
    IN IF n < 10 THEN <<D[n + 1]>> ELSE <<D[(n \div 10) + 1], D[(n % 10) + 1]>>

TemplateOf(flag) ==
    IF flag = "loss_aversion_possible" THEN T_LOSS_AVERSION
    ELSE IF flag = "risk_seeking_or_noise" THEN T_RISK_SEEKING
    ELSE T_GENERIC

\* The coaching text for a row: the frame with the row's amounts, the row's
\* expected value 0.5 * win - 0.5 * lose with sign and one decimal, and the
\* sentence of the row's flag.
ExpectedFeedback(r) ==
    LET h == r.win - r.lose
        a == IF h < 0 THEN 0 - h ELSE h
    IN <<"This is a 50/50 gamble: win ">> \o Dec(r.win) \o <<"EUR or lose ">>
       \o Dec(r.lose) \o <<"EUR.", " ", "EV = ", IF h < 0 THEN "-" ELSE "+">>
       \o Dec(a \div 2) \o <<".", IF a % 2 = 0 THEN "0" ELSE "5">>
       \o <<"EUR (expected value).", " ", TemplateOf(r.flag)>>

\* C10: every pre or post row has empty feedback and empty reflection; every
\* train row's feedback is the non-empty coaching text composed from the
\* row's gamble and flag with the sentence of that flag, the three sentences
\* being distinct.
C10_FeedbackOnlyInTraining ==
    /\ Cardinality({T_LOSS_AVERSION, T_RISK_SEEKING, T_GENERIC}) = 3
    /\ \A i \in 1 .. Len(Logs) :
          /\ Logs[i].phase \in {"pre", "post"} =>
                Logs[i].feedback = <<>> /\ Logs[i].reflection = <<>>
          /\ Logs[i].phase = "train" =>
                /\ Logs[i].feedback # <<>>
                /\ Logs[i].feedback = ExpectedFeedback(Logs[i])

\* The post-test has logged a row after a training with a risk-seeking row
\* and a row that carries a typed reflection.
C10_Witness ==
    /\ Phase = "post"
    /\ session_state.trial_index > 0
    /\ \E i, j \in 1 .. Len(Logs) :
          /\ Logs[i].phase = "train" /\ Logs[i].flag = "risk_seeking_or_noise"
          /\ Logs[j].phase = "train" /\ Logs[j].reflection # <<>>

RefStart(seed) ==
    LET s == [IdleSession EXCEPT !.rng_seed = seed, !.phase = "pre"]
    IN [s EXCEPT !.current_gamble = sample_mixed_gamble(s.difficulty, rng(s))]

RefEntry(s) ==
    [phase |-> s.phase, trial_index |-> s.trial_index,
     difficulty |-> s.difficulty, gamble |-> s.current_gamble]

\* n more trials of the session run.s, their entries appended to run.shown.
RECURSIVE RefRun(_, _)
RefRun(run, n) ==
    IF n = 0 \/ run.s.phase = "done" THEN run
    ELSE RefRun([s |-> handle(run.s, run.s.current_gamble, run.s.phase, <<>>, "accept"),
                 shown |-> Append(run.shown, RefEntry(run.s))], n - 1)

\* The pre-test, then the training, then the post-test.
RefShown ==
    [seed \in 0 .. MaxSeed |->
        LET pre == RefRun([s |-> RefStart(seed), shown |-> <<>>], 40)
            train == RefRun(pre, 25)
            post == RefRun(train, 40)
        IN post.shown]

\* The trial of the reference session at the running session's position.
RefHere == RefShown[session_state.rng_seed][Len(Logs) + 1]

\* C12 as stated: two sessions with the same seed present the same gamble at
\* the same (phase, trial index): every session presents, at each trial,
\* the gamble the all-accepting session with its seed presents there.
C12_SameSeedSameGamble ==
    Phase \in {"pre", "train", "post"} =>
        /\ RefHere.phase = Phase
        /\ RefHere.trial_index = session_state.trial_index
        /\ session_state.current_gamble = RefHere.gamble

\* C12 amended: the presented gamble is the one drawn for the session's tier
\* from the generator seeded with rng_seed + trial_index, so two sessions
\* with the same seed present the same gamble at the same (phase, trial
\* index) whenever their tiers there are equal; the tiers are equal (0)
\* in pre, in post and at the first training trial.
C12_SameSeedSameTierSameGamble ==
    Phase \in {"pre", "train", "post"} =>
        /\ RefHere.phase = Phase
        /\ RefHere.trial_index = session_state.trial_index
        /\ session_state.current_gamble =
              sample_mixed_gamble(session_state.difficulty,
                                  Random(session_state.rng_seed + session_state.trial_index))
        /\ session_state.difficulty = RefHere.difficulty =>
              session_state.current_gamble = RefHere.gamble
        /\ (Phase \in {"pre", "post"} \/ session_state.trial_index = 0) =>
              session_state.difficulty = RefHere.difficulty

\* A training trial after a rejection presents the reference session's
\* gamble because the two tiers are equal there.
C12_Witness ==
    /\ Phase = "train"
    /\ session_state.trial_index >= 3
    /\ \E i \in 1 .. Len(Logs) : Logs[i].decision = "reject"
    /\ session_state.difficulty = RefHere.difficulty
    /\ session_state.current_gamble = RefHere.gamble

\* C16: the step from post to done appends the 105th row and keeps the
\* current gamble (no gamble is sampled); while the phase is done and no
\* restart happens the phase, the current gamble and the log keep their
\* values; and, the participant answering, a session in a trial phase
\* reaches done.
C16_DoneStopsGambles ==
    /\ [][ /\ (Phase = "post" /\ session_state'.phase = "done") =>
                /\ Decided
                /\ Len(session_state'.logs) = 105
                /\ session_state'.current_gamble = session_state.current_gamble
           /\ (Phase = "done" /\ ~Restarted) =>
                /\ session_state'.phase = "done"
                /\ session_state'.current_gamble = session_state.current_gamble
                /\ session_state'.logs = session_state.logs
         ]_vars
    /\ (Phase \in {"pre", "train", "post"}) ~> (Phase = "done")

C16_Witness ==
    /\ Phase = "done"
    /\ restarts = 1
    /\ Len(Logs) = 105
    /\ session_state.current_gamble.win = Logs[105].win
    /\ session_state.current_gamble.lose = Logs[105].lose

\* The window after a flag has entered it: the last 10 flags.
WindowWith(window, flag) ==
    IF Len(window) < 10 THEN Append(window, flag) ELSE Append(Tail(window), flag)

\* The tier after an adaptation of tier t on a non-empty window.
AdaptedTier(t, window) ==
    IF 10 * LaCount(window) >= 6 * Len(window) THEN (IF t > 0 THEN t - 1 ELSE 0)
    ELSE IF 10 * LaCount(window) <= 2 * Len(window) THEN (IF t < 2 THEN t + 1 ELSE 2)
    ELSE t

\* C17: a training decision that is not the 25th leaves the window extended
\* by the flag of the row it appends, the tier adapted from the old tier on
\* that window, and the next gamble drawn for the adapted tier from the
\* generator seeded rng_seed + the new trial index; the 25th training
\* decision leaves tier 0, an empty window and a first post-test gamble drawn
\* for tier 0, whatever the adaptation gave.
C17_AdaptThenSample ==
    [][ (Decided /\ Phase = "train") =>
          LET row == session_state'.logs[Len(session_state'.logs)]
              window == WindowWith(session_state.last_flags, row.flag)
              tier == AdaptedTier(session_state.difficulty, window)
          IN IF session_state.trial_index + 1 < 25
             THEN /\ session_state'.phase = "train"
                  /\ session_state'.trial_index = session_state.trial_index + 1
                  /\ session_state'.last_flags = window
                  /\ session_state'.difficulty = tier
                  /\ FromTier(session_state'.current_gamble, tier)
                  /\ session_state'.current_gamble =
                        sample_mixed_gamble(tier, Random(session_state.rng_seed
                                                         + session_state.trial_index + 1))
             ELSE /\ session_state'.phase = "post"
                  /\ session_state'.trial_index = 0
                  /\ session_state'.last_flags = <<>>
                  /\ session_state'.difficulty = 0
                  /\ FromTier(session_state'.current_gamble, 0)
                  /\ session_state'.current_gamble =
                        sample_mixed_gamble(0, Random(session_state.rng_seed))
      ]_vars

\* The first training decision was flagged none: the window holds that flag
\* and the second training gamble is drawn for tier 1.
C17_Witness ==
    /\ Phase = "train"
    /\ Len(Logs) = 41
    /\ session_state.last_flags = <<"none">>
    /\ session_state.difficulty = 1
    /\ FromTier(session_state.current_gamble, 1)

\* The flag of a row, from its own amounts and decision (ev in half euros,
\* so 2.0 is 4).
RowFlag(r) ==
    IF r.win - r.lose >= 4 /\ r.decision = "reject" THEN "loss_aversion_possible"
    ELSE IF r.win - r.lose <= 0 - 4 /\ r.decision = "accept" THEN "risk_seeking_or_noise"
    ELSE "none"

\* C18: every row carries the amounts of the gamble that was pending when
\* its decision was made; its ev is 0.5*win - 0.5*lose (in half euros,
\* win - lose; win 20 and loss 10 give 5.0, ten half euros); its decision is
\* accept or reject; and its flag is the classifier's answer for that row's
\* gamble and decision.
C18_RowConsistent ==
    /\ [](/\ ev([p_win |-> 1, win |-> 20, p_lose |-> 1, lose |-> 10]) = 10
          /\ \A i \in 1 .. Len(Logs) :
                /\ Logs[i].p_win = 1 /\ Logs[i].p_lose = 1
                /\ Logs[i].ev = Logs[i].win - Logs[i].lose
                /\ Logs[i].decision \in {"accept", "reject"}
                /\ Logs[i].flag = RowFlag(Logs[i]))
    /\ [][ Decided =>
             LET row == session_state'.logs[Len(session_state'.logs)]
             IN /\ row.win = session_state.current_gamble.win
                /\ row.lose = session_state.current_gamble.lose
                /\ row.p_win = session_state.current_gamble.p_win
                /\ row.p_lose = session_state.current_gamble.p_lose
         ]_vars

\* Pre-test rows with each decision, one of them a rejected gamble of
\* ev >= 2.0 and one a rejected gamble of lower ev.
C18_Witness ==
    /\ Phase = "pre"
    /\ \E i, j, k \in 1 .. Len(Logs) :
          /\ Logs[i].decision = "reject" /\ Logs[i].ev >= 4
          /\ Logs[i].flag = "loss_aversion_possible"
          /\ Logs[j].decision = "accept"
          /\ Logs[k].decision = "reject" /\ Logs[k].ev < 4
          /\ Logs[k].flag = "none"

\* C19: in a trial phase 0 <= trial_index < 40, 25, 40 and the trial index
\* is the number of rows the phase has so far; the rows of each phase carry
\* trial_in_phase 0, 1, 2, ... in log order (row 1 to 40 the values 0..39,
\* rows 41 to 65 the values 0..24, rows 66 to 105 the values 0..39).
C19_TrialIndex ==
    /\ Phase = "pre" => session_state.trial_index \in 0 .. 39
    /\ Phase = "train" => session_state.trial_index \in 0 .. 24
    /\ Phase = "post" => session_state.trial_index \in 0 .. 39
    /\ Phase \in {"pre", "train", "post"} =>
          session_state.trial_index = RowsOf(Logs, Phase)
    /\ \A i \in 1 .. Len(Logs) :
          Logs[i].trial_in_phase =
             IF Logs[i].phase = "pre" THEN i - 1
             ELSE IF Logs[i].phase = "train" THEN i - 41
             ELSE i - 66

C19_Witness ==
    /\ Phase = "post"
    /\ session_state.trial_index = 39
    /\ Len(Logs) = 104
    /\ Logs[104].trial_in_phase = 38
    /\ Logs[65].trial_in_phase = 24

\* C20: in one session post-test row i has the win and loss amounts of
\* pre-test row i (i in 0..39), the first training row those of the first
\* pre-test row, and the gamble pending at a post-test trial or at the first
\* training trial those of the pre-test row of the same index.
C20_PostRepeatsPre ==
    /\ \A i \in 1 .. 40 :
          (65 + i <= Len(Logs)) =>
             /\ Logs[65 + i].win = Logs[i].win
             /\ Logs[65 + i].lose = Logs[i].lose
    /\ Len(Logs) >= 41 =>
          Logs[41].win = Logs[1].win /\ Logs[41].lose = Logs[1].lose
    /\ (Phase = "post" \/ (Phase = "train" /\ session_state.trial_index = 0)) =>
          /\ session_state.current_gamble.win = Logs[session_state.trial_index + 1].win
          /\ session_state.current_gamble.lose = Logs[session_state.trial_index + 1].lose

\* A finished session whose post-test decision differs from its pre-test
\* decision on the same gamble.
C20_Witness ==
    /\ Phase = "done"
    /\ Len(Logs) = 105
    /\ \E i \in 1 .. 40 :
          /\ Logs[65 + i].decision # Logs[i].decision
          /\ Logs[65 + i].win = Logs[i].win
          /\ Logs[65 + i].lose = Logs[i].lose
    /\ \E i, j \in 1 .. 40 : Logs[i].win # Logs[j].win

\* C13: processing a trial while the phase is consent or done is rejected
\* and leaves the session unchanged (no row appended; phase, trial index,
\* tier, flag window and gamble keep their values), so every row of the log
\* has phase pre, train or post.
C13_OutOfPhaseRejected ==
    /\ [](\A i \in 1 .. Len(Logs) : Logs[i].phase \in {"pre", "train", "post"})
    /\ [][ call'.fn = "process_trial" => session_state' = session_state ]_vars

\* C14: a tier outside 0..2 passed to sample_mixed_gamble or adapt_difficulty
\* is rejected: a negative tier gives no tier-0 gamble, a tier above 2 gives
\* no tier-2 gamble, and adapt_difficulty returns no tier computed from it.
C14_OutOfRangeTierRejected ==
    /\ (call.fn = "sample_mixed_gamble" /\ ret # <<>> /\ call.difficulty < 0) =>
          ~FromTier(ret[1], 0)
    /\ (call.fn = "sample_mixed_gamble" /\ ret # <<>> /\ call.difficulty > 2) =>
          ~FromTier(ret[1], 2)
    /\ (call.fn = "adapt_difficulty" /\ ret # <<>> /\ call.current \notin 0 .. 2) =>
          ret[1] \notin (call.current - 1) .. (call.current + 1)

\* C15: a decision label other than accept and reject is rejected: the
\* classifier does not answer none for it, and log_decision appends no row
\* that carries it.
C15_BadLabelRejected ==
    /\ (call.fn = "simple_loss_aversion_flag" /\ ret # <<>>
           /\ call.decision \notin {"accept", "reject"}) => ret[1] # "none"
    /\ (call.fn = "log_decision" /\ ret # <<>>
           /\ call.decision \notin {"accept", "reject"}) =>
          \A i \in 1 .. Len(ret[1]) : ret[1][i].decision \in {"accept", "reject"}

=============================================================================
